---- MODULE Spec2Model ----
(***************************************************************************)
(* Model of the Nova SDS011 WeeWX service (src/bin/user/novaSDS011.py).    *)
(*                                                                         *)
(* Two threads of control are modelled, each by a program counter:         *)
(*   hpc  the host (WeeWX engine) thread: __init__, initialize_sensor,     *)
(*        new_loop_packet and shutDown;                                    *)
(*   wpc  the background thread running sensor_loop.                       *)
(* The serial channel and the file system are the environment: a write or  *)
(* a read on the channel, and every file-system call of write_json, may    *)
(* succeed or raise, and a read returns a frame drawn from CandidateFrames.*)
(* Time is the integer clock `now` (seconds); time.sleep(d) advances it by *)
(* d and a read_response advances it by 0..MaxReadTime.                    *)
(* Particle values are kept in tenths of a microgram: the model's 123      *)
(* stands for the program's 12.3.                                          *)
(*                                                                         *)
(* Specifications:                                                         *)
(*   Spec       the whole service, from __init__ to shutDown;              *)
(*   SpecCycle  the duty cycle of a constructed service the host leaves    *)
(*              running, with a longer reading period;                     *)
(*   SpecBuild  one call of construct_command on every argument tried;     *)
(*   SpecQuery  one call of cmd_query_data on every 10-byte buffer tried.  *)
(***************************************************************************)
EXTENDS Integers, Sequences, FiniteSets, TLC

VARIABLES
    now,          \* time.time(), in whole seconds
    hpc,          \* host thread: position in __init__ / new_loop_packet / shutDown
    wpc,          \* worker thread: position in sensor_loop
    ser,          \* self.ser: "unset", "None", "open" or "closed"
    running,      \* self.running: "unset", "True" or "False"
    thread,       \* self.thread: "unset" or "started"
    bound,        \* new_loop_packet is bound to NEW_LOOP_PACKET
    attempt,      \* initialize_sensor: the loop variable attempt
    tx,           \* the last command frame written to the serial channel
    closes,       \* number of calls of self.ser.close()
    lock,         \* self.lock: "free", "worker" or "host"
    latest_pm25,  \* self.latest_pm25
    latest_pm10,  \* self.latest_pm10
    last_update,  \* self.last_update
    start_time,   \* sensor_loop: start_time
    samples,      \* sensor_loop: samples
    queries,      \* number of cmd_query_data calls of the current reading period
    pm25,         \* sensor_loop: pm25 (the selected sample)
    pm10,         \* sensor_loop: pm10
    data,         \* write_json: data, as the sequence of its (key, value) pairs
    tmpfile,      \* the temporary file of write_json
    destfile,     \* the file at self.json_output
    packet,       \* event.packet of the last NEW_LOOP_PACKET event
    lastpub,      \* history: the (pm25, pm10, timestamp) the last cache update was given
    faults,       \* number of failures and delays the environment has injected
    budget,       \* number of failures and delays the environment may inject
    read_period,  \* self.read_period
    sleep_period, \* self.sleep_period
    sample_interval, \* self.sample_interval
    bcmd,         \* a call of construct_command: cmd
    barg,         \* the value of the list passed as data when the call was made
    bdata,        \* the list object passed as data
    bret,         \* the frame returned
    bpc,          \* "off", "call", "returned" or "raised"
    qd,           \* a call of cmd_query_data: the frame d read_response returned
    qret,         \* the (pm25, pm10) returned
    qbefore,      \* samples of sensor_loop before the call
    qsamples,     \* samples of sensor_loop
    qpc,          \* "off", "call" or "returned"
    rpc,          \* a call of read_response: position, or how it ended
    rbyte,        \* read_response: byte, <<>> for b''
    retries,      \* read_response: retries
    reads,        \* number of self.ser.read(size=1) calls made
    rd,           \* read_response: the bytes returned
    ppc,          \* a series of cmd_query_data calls: "off", "call" or "read"
    pseq,         \* number of query commands written to the port so far
    inflight,     \* replies the sensor has not delivered yet, by number of their query
    rxq,          \* the input buffer of the port: replies delivered and not yet read
    pgot          \* the reply the last returned reading was decoded from, or None

vars == <<now, hpc, wpc, ser, running, thread, bound, attempt, tx, closes, lock,
          latest_pm25, latest_pm10, last_update, start_time, samples, queries,
          pm25, pm10, data, tmpfile, destfile, packet, lastpub, faults, budget,
          read_period, sleep_period, sample_interval,
          bcmd, barg, bdata, bret, bpc, qd, qret, qbefore, qsamples, qpc,
          rpc, rbyte, retries, reads, rd, ppc, pseq, inflight, rxq, pgot>>

svcVars == <<now, hpc, wpc, ser, running, thread, bound, attempt, tx, closes, lock,
             latest_pm25, latest_pm10, last_update, start_time, samples, queries,
             pm25, pm10, data, tmpfile, destfile, packet, lastpub, faults, budget,
             read_period, sleep_period, sample_interval>>

readVars == <<rpc, rbyte, retries, reads, rd>>

pairVars == <<ppc, pseq, inflight, rxq, pgot>>

harnessVars == <<bcmd, barg, bdata, bret, bpc, qd, qret, qbefore, qsamples, qpc,
                 readVars, pairVars>>

configVars == <<read_period, sleep_period, sample_interval>>

\* what no step of the service changes
otherVars == <<configVars, harnessVars, budget>>

----------------------------------------------------------------------------
(* Bounds of the model and the configuration under test. *)

MaxNow == 18          \* the clock stops here
MaxReadTime == 1      \* a read_response takes 0..MaxReadTime seconds
MaxFaults == 1        \* failures and delays injected in one run
StartupFaults == 3    \* failures and delays injected in one start of the service
ReadPeriod == 2       \* [NovaSDS011] read_period, in the runs of the whole service
CycleReadPeriod == 4  \* [NovaSDS011] read_period, in the runs of the duty cycle
SleepPeriod == 1      \* [NovaSDS011] sleep_period
SampleInterval == 1   \* [NovaSDS011] sample_interval
MaxQueries == 4       \* cmd_query_data calls of one series
MaxReads == 12        \* single-byte reads of one read_response call that are followed
MaxDataLen == 13      \* construct_command harness: longest data list tried

(* Program constants. *)

CMD_MODE == 2
CMD_QUERY_DATA == 4
CMD_SLEEP == 6
MODE_QUERY == 1
None == -1
HEAD == 170           \* 0xaa
CMD_ID == 180         \* 0xb4
TAIL == 171           \* 0xab
FILL == 255           \* 0xff
QUERY_REPLY == 192    \* 0xc0
DATA_LEN == 12
max_retries == 3
INIT_STABILIZE == 2
INIT_BACKOFF == 3
WAKE_STABILIZE == 1
LOOP_BACKOFF == 10
JOIN_TIMEOUT == 5
read_max_retries == 10

----------------------------------------------------------------------------
(* Pure functions. *)

RECURSIVE SumSeq(_)
SumSeq(s) == IF s = <<>> THEN 0 ELSE Head(s) + SumSeq(Tail(s))

Zeros(n) == [i \in 1..n |-> 0]

\* data += [0] * (12 - len(data)): a negative count repeats nothing
PadData(d) == d \o Zeros(IF DATA_LEN - Len(d) > 0 THEN DATA_LEN - Len(d) ELSE 0)

\* a variant of Checksum: the "- 2" of the checksum is forgotten
Checksum_no_offset(cmd, padded) == (SumSeq(padded) + cmd) % 256

Checksum(cmd, padded) == (SumSeq(padded) + cmd - 2) % 256

\* construct_command(cmd, data): raised is the failed assert; ret the frame;
\* data the list object passed in, as the call leaves it.
construct_command(cmd, d) ==
    IF Len(d) > DATA_LEN
    THEN [raised |-> TRUE, ret |-> <<>>, data |-> d]
    ELSE LET padded == PadData(d)
         IN [raised |-> FALSE,
             ret |-> <<HEAD, CMD_ID, cmd>> \o padded
                     \o <<FILL, FILL, Checksum(cmd, padded), TAIL>>,
             data |-> padded]

\* the frame cmd_set_mode(mode) writes
cmd_set_mode_frame(mode) == construct_command(CMD_MODE, <<1, mode>>).ret

\* the frame cmd_set_sleep(sleep) writes; sleep is 0 or 1
cmd_set_sleep_frame(sleep) ==
    construct_command(CMD_SLEEP, <<1, IF sleep # 0 THEN 0 ELSE 1>>).ret

\* the frame cmd_query_data() writes
cmd_query_data_frame == construct_command(CMD_QUERY_DATA, <<>>).ret

\* a variant of cmd_query_data_decode: the terminator d[9] is not looked at
cmd_query_data_decode_no_tail(d) ==
    IF Len(d) = 10 /\ d[1] = HEAD /\ d[2] = QUERY_REPLY
    THEN <<d[3] + d[4] * 256, d[5] + d[6] * 256>>
    ELSE <<None, None>>

\* a variant of cmd_query_data_decode: the high byte of each value is read first
cmd_query_data_decode_high_first(d) ==
    IF Len(d) = 10 /\ d[1] = HEAD /\ d[2] = QUERY_REPLY /\ d[10] = TAIL
    THEN <<d[3] * 256 + d[4], d[5] * 256 + d[6]>>
    ELSE <<None, None>>

\* cmd_query_data, after read_response returned d: (pm25, pm10) in tenths,
\* or (None, None)
cmd_query_data_decode(d) ==
    IF Len(d) = 10 /\ d[1] = HEAD /\ d[2] = QUERY_REPLY /\ d[10] = TAIL
    THEN <<d[3] + d[4] * 256, d[5] + d[6] * 256>>
    ELSE <<None, None>>

\* sensor_loop: what one returned (pm25, pm10) does to samples
append_sample(smp, r) ==
    IF r[1] # None /\ r[2] # None THEN Append(smp, r) ELSE smp

----------------------------------------------------------------------------
(* The environment: the serial channel. *)

Frame(type, p, term) == <<HEAD, type, p[1], p[2], p[3], p[4], 0, 0, 0, term>>

\* payloads of the query replies the sensor sends: (1.0, 1.0), (2.0, 2.0), (3.0, 3.0)
Payloads == {<<10, 0, 10, 0>>, <<20, 0, 20, 0>>, <<30, 0, 30, 0>>}

\* what read_response can return: it returns 10 bytes, the first 0xaa
CandidateFrames ==
    {Frame(QUERY_REPLY, p, TAIL) : p \in Payloads}
    \cup {Frame(197, <<10, 0, 10, 0>>, TAIL), Frame(QUERY_REPLY, <<20, 0, 20, 0>>, 0)}

\* self.ser.write(cmd), self.ser.flushInput(): TRUE when it returns, FALSE when
\* it raises; on a closed port it raises
WriteResults == IF ser = "open" THEN {TRUE, FALSE} ELSE {FALSE}

\* read_response(): kind "frame" with the 10 bytes, or the exception raised
ReadResults ==
    IF ser = "open"
    THEN {[kind |-> "frame", d |-> f] : f \in CandidateFrames}
         \cup {[kind |-> k, d |-> <<>>] : k \in {"NoResponse", "IncompleteResponse"}}
    ELSE {[kind |-> "SerialException", d |-> <<>>]}

\* a command acknowledgement is read and dropped: only whether it raised counts
AckResults == {r.kind = "frame" : r \in ReadResults}

\* the environment injects at most budget failures and delays; a failure on
\* a closed port is the port's, not injected
Inject(anomaly) ==
    /\ anomaly => faults < budget
    /\ faults' = IF anomaly THEN faults + 1 ELSE faults

ChannelCall(ok) == Inject(~ok /\ ser = "open")

FileCall(ok) == Inject(~ok)

\* time passes
Elapse(dt) == now + dt <= MaxNow /\ now' = now + dt

\* a read on the channel: it returns or raises (ok), after dt seconds
ChannelRead(ok, dt) == Elapse(dt) /\ Inject((~ok \/ dt > 0) /\ ser = "open")

----------------------------------------------------------------------------
(* Variable groups, for UNCHANGED. *)

cacheVars == <<lock, latest_pm25, latest_pm10, last_update, lastpub>>
loopVars == <<start_time, samples, queries, pm25, pm10>>
fileVars == <<data, tmpfile, destfile>>
lifeVars == <<running, thread, bound>>

NoFile == [exists |-> FALSE, content |-> <<>>]

\* the packet of a NEW_LOOP_PACKET event as the engine hands it over: the host's
\* own fields and no pm2_5, pm10_0 key (None stands for the absent key)
NewPacket == [outTemp |-> 215, pm2_5 |-> None, pm10_0 |-> None]

\* no call of the pure functions is being followed
ReadOff ==
    /\ rpc = "off"
    /\ rbyte = <<>>
    /\ retries = 0
    /\ reads = 0
    /\ rd = <<>>

PairOff ==
    /\ ppc = "off"
    /\ pseq = 0
    /\ inflight = <<>>
    /\ rxq = <<>>
    /\ pgot = None

HarnessOff ==
    /\ ReadOff
    /\ PairOff
    /\ bcmd = CMD_MODE
    /\ barg = <<>>
    /\ bdata = <<>>
    /\ bret = <<>>
    /\ bpc = "off"
    /\ qd = <<>>
    /\ qret = <<None, None>>
    /\ qbefore = <<>>
    /\ qsamples = <<>>
    /\ qpc = "off"

\* the service before __init__ opens the port, in an environment that may
\* inject b failures
ServiceStart(b) ==
    /\ budget = b
    /\ now = 0
    /\ hpc = "start"
    /\ wpc = "idle"
    /\ ser = "unset"
    /\ running = "unset"
    /\ thread = "unset"
    /\ bound = FALSE
    /\ attempt = 0
    /\ tx = <<>>
    /\ closes = 0
    /\ lock = "free"
    /\ latest_pm25 = None
    /\ latest_pm10 = None
    /\ last_update = None
    /\ start_time = 0
    /\ samples = <<>>
    /\ queries = 0
    /\ pm25 = None
    /\ pm10 = None
    /\ data = <<>>
    /\ tmpfile = NoFile
    /\ destfile = NoFile
    /\ packet = NewPacket
    /\ lastpub = <<None, None, None>>
    /\ faults = 0
    /\ read_period = ReadPeriod
    /\ sleep_period = SleepPeriod
    /\ sample_interval = SampleInterval

ServiceInit == ServiceStart(MaxFaults)

Init == ServiceInit /\ HarnessOff

----------------------------------------------------------------------------
(* Host thread: __init__ and initialize_sensor. *)

\* __init__: the try block that opens the serial port
init_serial ==
    /\ hpc = "start"
    /\ \/ ser' = "open" /\ hpc' = "init_wake_w"
       \/ ser' = "None" /\ hpc' = "started"
    /\ UNCHANGED <<now, wpc, attempt, tx, closes, cacheVars, loopVars, fileVars,
                   lifeVars, packet, faults, otherVars>>

\* a variant of init_failed: every failed attempt is followed by another
init_failed_no_limit ==
    hpc' = "init_backoff"

\* initialize_sensor: the except block of one attempt
init_failed ==
    hpc' = IF attempt < max_retries - 1 THEN "init_backoff" ELSE "thread_start"

init_wake_write ==
    /\ hpc = "init_wake_w"
    /\ \E ok \in WriteResults :
         /\ ChannelCall(ok)
         /\ IF ok THEN tx' = cmd_set_sleep_frame(0) /\ hpc' = "init_wake_r"
                  ELSE tx' = tx /\ init_failed
    /\ UNCHANGED <<now, wpc, ser, attempt, closes, cacheVars, loopVars, fileVars,
                   lifeVars, packet, otherVars>>

init_wake_read ==
    /\ hpc = "init_wake_r"
    /\ \E ok \in AckResults, dt \in 0..MaxReadTime :
         /\ ChannelRead(ok, dt)
         /\ IF ok THEN hpc' = "init_stab" ELSE init_failed
    /\ UNCHANGED <<wpc, ser, attempt, tx, closes, cacheVars, loopVars, fileVars,
                   lifeVars, packet, otherVars>>

init_stabilize ==
    /\ hpc = "init_stab"
    /\ Elapse(INIT_STABILIZE)
    /\ hpc' = "init_flush"
    /\ UNCHANGED <<wpc, ser, attempt, tx, closes, cacheVars, loopVars, fileVars,
                   lifeVars, packet, faults, otherVars>>

init_flush ==
    /\ hpc = "init_flush"
    /\ \E ok \in WriteResults :
         /\ ChannelCall(ok)
         /\ IF ok THEN hpc' = "init_mode_w" ELSE init_failed
    /\ UNCHANGED <<now, wpc, ser, attempt, tx, closes, cacheVars, loopVars, fileVars,
                   lifeVars, packet, otherVars>>

init_mode_write ==
    /\ hpc = "init_mode_w"
    /\ \E ok \in WriteResults :
         /\ ChannelCall(ok)
         /\ IF ok THEN tx' = cmd_set_mode_frame(MODE_QUERY) /\ hpc' = "init_mode_r"
                  ELSE tx' = tx /\ init_failed
    /\ UNCHANGED <<now, wpc, ser, attempt, closes, cacheVars, loopVars, fileVars,
                   lifeVars, packet, otherVars>>

init_mode_read ==
    /\ hpc = "init_mode_r"
    /\ \E ok \in AckResults, dt \in 0..MaxReadTime :
         /\ ChannelRead(ok, dt)
         /\ IF ok THEN hpc' = "thread_start" ELSE init_failed
    /\ UNCHANGED <<wpc, ser, attempt, tx, closes, cacheVars, loopVars, fileVars,
                   lifeVars, packet, otherVars>>

init_backoff ==
    /\ hpc = "init_backoff"
    /\ Elapse(INIT_BACKOFF)
    /\ attempt' = attempt + 1
    /\ hpc' = "init_wake_w"
    /\ UNCHANGED <<wpc, ser, tx, closes, cacheVars, loopVars, fileVars,
                   lifeVars, packet, faults, otherVars>>

\* __init__: self.running = True and the start of the background thread
thread_start ==
    /\ hpc = "thread_start"
    /\ running' = "True"
    /\ thread' = "started"
    /\ wpc' = "entry"
    /\ hpc' = "bind"
    /\ UNCHANGED <<now, ser, bound, attempt, tx, closes, cacheVars, loopVars,
                   fileVars, packet, faults, otherVars>>

\* __init__: self.bind(weewx.NEW_LOOP_PACKET, self.new_loop_packet)
bind_new_loop_packet ==
    /\ hpc = "bind"
    /\ bound' = TRUE
    /\ hpc' = "started"
    /\ UNCHANGED <<now, wpc, ser, running, thread, attempt, tx, closes, cacheVars,
                   loopVars, fileVars, packet, faults, otherVars>>

----------------------------------------------------------------------------
(* Host thread: new_loop_packet. *)

\* the engine raises NEW_LOOP_PACKET; new_loop_packet enters `with self.lock`
new_loop_packet_lock ==
    /\ hpc = "started"
    /\ bound
    /\ lock = "free"
    /\ lock' = "host"
    /\ packet' = NewPacket
    /\ hpc' = "nlp_body"
    /\ UNCHANGED <<now, wpc, ser, attempt, tx, closes, latest_pm25, latest_pm10,
                   last_update, lastpub, loopVars, fileVars, lifeVars, faults, otherVars>>

\* a variant of new_loop_packet_body: the reading is handed over once and the
\* cache emptied
new_loop_packet_body_consuming ==
    /\ hpc = "nlp_body"
    /\ packet' = IF latest_pm25 # None /\ latest_pm10 # None
                 THEN [packet EXCEPT !.pm2_5 = latest_pm25, !.pm10_0 = latest_pm10]
                 ELSE packet
    /\ latest_pm25' = None
    /\ latest_pm10' = None
    /\ lock' = "free"
    /\ hpc' = "started"
    /\ UNCHANGED <<now, wpc, ser, attempt, tx, closes, last_update, lastpub,
                   loopVars, fileVars, lifeVars, faults, otherVars>>

\* the body of the with block, and its exit
new_loop_packet_body ==
    /\ hpc = "nlp_body"
    /\ packet' = IF latest_pm25 # None /\ latest_pm10 # None
                 THEN [packet EXCEPT !.pm2_5 = latest_pm25, !.pm10_0 = latest_pm10]
                 ELSE packet
    /\ lock' = "free"
    /\ hpc' = "started"
    /\ UNCHANGED <<now, wpc, ser, attempt, tx, closes, latest_pm25, latest_pm10,
                   last_update, lastpub, loopVars, fileVars, lifeVars, faults, otherVars>>

----------------------------------------------------------------------------
(* Host thread: shutDown. *)

\* self.running = False; if self.thread and self.thread.is_alive()
shutDown_begin ==
    /\ hpc = "started"
    /\ running' = "False"
    /\ hpc' = IF thread = "unset" THEN "sd_raised"
              ELSE IF wpc # "done" THEN "sd_join" ELSE "sd_ser"
    /\ UNCHANGED <<now, wpc, ser, thread, bound, attempt, tx, closes, cacheVars,
                   loopVars, fileVars, packet, faults, otherVars>>

\* self.thread.join(timeout=5)
shutDown_join ==
    /\ hpc = "sd_join"
    /\ \/ wpc = "done" /\ now' = now
       \/ wpc # "done" /\ Elapse(JOIN_TIMEOUT)
    /\ hpc' = "sd_ser"
    /\ UNCHANGED <<wpc, ser, attempt, tx, closes, cacheVars, loopVars, fileVars,
                   lifeVars, packet, faults, otherVars>>

\* if self.ser
shutDown_check_ser ==
    /\ hpc = "sd_ser"
    /\ hpc' = IF ser # "None" THEN "sd_sleep_w" ELSE "sd_done"
    /\ UNCHANGED <<now, wpc, ser, attempt, tx, closes, cacheVars, loopVars,
                   fileVars, lifeVars, packet, faults, otherVars>>

\* self.cmd_set_sleep(1) inside try / except: pass
shutDown_sleep_write ==
    /\ hpc = "sd_sleep_w"
    /\ \E ok \in WriteResults :
         /\ ChannelCall(ok)
         /\ IF ok THEN tx' = cmd_set_sleep_frame(1) /\ hpc' = "sd_sleep_r"
                  ELSE tx' = tx /\ hpc' = "sd_close"
    /\ UNCHANGED <<now, wpc, ser, attempt, closes, cacheVars, loopVars, fileVars,
                   lifeVars, packet, otherVars>>

shutDown_sleep_read ==
    /\ hpc = "sd_sleep_r"
    /\ \E ok \in AckResults, dt \in 0..MaxReadTime : ChannelRead(ok, dt)
    /\ hpc' = "sd_close"
    /\ UNCHANGED <<wpc, ser, attempt, tx, closes, cacheVars, loopVars, fileVars,
                   lifeVars, packet, otherVars>>

\* self.ser.close()
shutDown_close ==
    /\ hpc = "sd_close"
    /\ ser' = "closed"
    /\ closes' = closes + 1
    /\ hpc' = "sd_done"
    /\ UNCHANGED <<now, wpc, attempt, tx, cacheVars, loopVars, fileVars,
                   lifeVars, packet, faults, otherVars>>

Host ==
    \/ init_serial \/ init_wake_write \/ init_wake_read \/ init_stabilize
    \/ init_flush \/ init_mode_write \/ init_mode_read \/ init_backoff
    \/ thread_start \/ bind_new_loop_packet
    \/ new_loop_packet_lock \/ new_loop_packet_body
    \/ shutDown_begin \/ shutDown_join \/ shutDown_check_ser
    \/ shutDown_sleep_write \/ shutDown_sleep_read \/ shutDown_close

----------------------------------------------------------------------------
(* Worker thread: sensor_loop. *)

hostVars == <<hpc, attempt, packet>>

\* if not self.ser: return
sensor_loop_entry ==
    /\ wpc = "entry"
    /\ wpc' = IF ser = "None" THEN "done" ELSE "bg_wake_w"
    /\ UNCHANGED <<now, ser, tx, closes, cacheVars, loopVars, fileVars, lifeVars,
                   hostVars, faults, otherVars>>

\* the initialization attempt of the background thread: any exception is
\* logged and the loop is entered
bg_init_wake_write ==
    /\ wpc = "bg_wake_w"
    /\ \E ok \in WriteResults :
         /\ ChannelCall(ok)
         /\ IF ok THEN tx' = cmd_set_sleep_frame(0) /\ wpc' = "bg_wake_r"
                  ELSE tx' = tx /\ wpc' = "loop_check"
    /\ UNCHANGED <<now, ser, closes, cacheVars, loopVars, fileVars, lifeVars,
                   hostVars, otherVars>>

bg_init_wake_read ==
    /\ wpc = "bg_wake_r"
    /\ \E ok \in AckResults, dt \in 0..MaxReadTime :
         /\ ChannelRead(ok, dt)
         /\ wpc' = IF ok THEN "bg_stab" ELSE "loop_check"
    /\ UNCHANGED <<ser, tx, closes, cacheVars, loopVars, fileVars, lifeVars,
                   hostVars, otherVars>>

bg_init_stabilize ==
    /\ wpc = "bg_stab"
    /\ Elapse(INIT_STABILIZE)
    /\ wpc' = "bg_flush"
    /\ UNCHANGED <<ser, tx, closes, cacheVars, loopVars, fileVars, lifeVars,
                   hostVars, faults, otherVars>>

bg_init_flush ==
    /\ wpc = "bg_flush"
    /\ \E ok \in WriteResults :
         /\ ChannelCall(ok)
         /\ wpc' = IF ok THEN "bg_mode_w" ELSE "loop_check"
    /\ UNCHANGED <<now, ser, tx, closes, cacheVars, loopVars, fileVars, lifeVars,
                   hostVars, otherVars>>

bg_init_mode_write ==
    /\ wpc = "bg_mode_w"
    /\ \E ok \in WriteResults :
         /\ ChannelCall(ok)
         /\ IF ok THEN tx' = cmd_set_mode_frame(MODE_QUERY) /\ wpc' = "bg_mode_r"
                  ELSE tx' = tx /\ wpc' = "loop_check"
    /\ UNCHANGED <<now, ser, closes, cacheVars, loopVars, fileVars, lifeVars,
                   hostVars, otherVars>>

bg_init_mode_read ==
    /\ wpc = "bg_mode_r"
    /\ \E ok \in AckResults, dt \in 0..MaxReadTime : ChannelRead(ok, dt)
    /\ wpc' = "loop_check"
    /\ UNCHANGED <<ser, tx, closes, cacheVars, loopVars, fileVars, lifeVars,
                   hostVars, otherVars>>

\* while self.running
loop_check ==
    /\ wpc = "loop_check"
    /\ wpc' = IF running = "True" THEN "wake_w" ELSE "done"
    /\ UNCHANGED <<now, ser, tx, closes, cacheVars, loopVars, fileVars, lifeVars,
                   hostVars, faults, otherVars>>

\* self.cmd_set_sleep(0): an exception leaves the cycle for the outer except
wake_write ==
    /\ wpc = "wake_w"
    /\ \E ok \in WriteResults :
         /\ ChannelCall(ok)
         /\ IF ok THEN tx' = cmd_set_sleep_frame(0) /\ wpc' = "wake_r"
                  ELSE tx' = tx /\ wpc' = "backoff"
    /\ UNCHANGED <<now, ser, closes, cacheVars, loopVars, fileVars, lifeVars,
                   hostVars, otherVars>>

wake_read ==
    /\ wpc = "wake_r"
    /\ \E ok \in AckResults, dt \in 0..MaxReadTime :
         /\ ChannelRead(ok, dt)
         /\ wpc' = IF ok THEN "wake_stab" ELSE "backoff"
    /\ UNCHANGED <<ser, tx, closes, cacheVars, loopVars, fileVars, lifeVars,
                   hostVars, otherVars>>

\* time.sleep(1)
wake_stabilize ==
    /\ wpc = "wake_stab"
    /\ Elapse(WAKE_STABILIZE)
    /\ wpc' = "samp_start"
    /\ UNCHANGED <<ser, tx, closes, cacheVars, loopVars, fileVars, lifeVars,
                   hostVars, faults, otherVars>>

\* start_time = time.time(); samples = []
sampling_start ==
    /\ wpc = "samp_start"
    /\ start_time' = now
    /\ samples' = <<>>
    /\ queries' = 0
    /\ wpc' = "samp_check"
    /\ UNCHANGED <<now, ser, tx, closes, cacheVars, pm25, pm10, fileVars, lifeVars,
                   hostVars, faults, otherVars>>

\* a variant of sampling_check: the loop test is written <=
sampling_check_inclusive ==
    /\ wpc = "samp_check"
    /\ wpc' = IF now - start_time <= read_period THEN "query_w" ELSE "select"
    /\ UNCHANGED <<now, ser, tx, closes, cacheVars, loopVars, fileVars, lifeVars,
                   hostVars, faults, otherVars>>

\* while time.time() - start_time < self.read_period
sampling_check ==
    /\ wpc = "samp_check"
    /\ wpc' = IF now - start_time < read_period THEN "query_w" ELSE "select"
    /\ UNCHANGED <<now, ser, tx, closes, cacheVars, loopVars, fileVars, lifeVars,
                   hostVars, faults, otherVars>>

\* cmd_query_data: self.ser.write(cmd); an exception is logged by the inner except
query_write ==
    /\ wpc = "query_w"
    /\ queries' = queries + 1
    /\ \E ok \in WriteResults :
         /\ ChannelCall(ok)
         /\ IF ok THEN tx' = cmd_query_data_frame /\ wpc' = "query_r"
                  ELSE tx' = tx /\ wpc' = "samp_sleep"
    /\ UNCHANGED <<now, ser, closes, cacheVars, start_time, samples, pm25, pm10,
                   fileVars, lifeVars, hostVars, otherVars>>

\* a variant of query_read: the try / except around the query is missing, so
\* that a TimeoutError leaves the reading period for the outer except block
query_read_unguarded ==
    /\ wpc = "query_r"
    /\ \E r \in ReadResults, dt \in 0..MaxReadTime :
         /\ ChannelRead(r.kind = "frame", dt)
         /\ IF r.kind = "frame"
            THEN LET res == cmd_query_data_decode(r.d)
                 IN /\ pm25' = res[1]
                    /\ pm10' = res[2]
                    /\ samples' = append_sample(samples, res)
                    /\ wpc' = "samp_sleep"
            ELSE UNCHANGED <<pm25, pm10, samples>> /\ wpc' = "backoff"
    /\ UNCHANGED <<ser, tx, closes, cacheVars, start_time, queries, fileVars,
                   lifeVars, hostVars, otherVars>>

\* cmd_query_data: d = self.read_response() and the decoding of d; then
\* pm25, pm10 = ... and samples.append((pm25, pm10))
query_read ==
    /\ wpc = "query_r"
    /\ \E r \in ReadResults, dt \in 0..MaxReadTime :
         /\ ChannelRead(r.kind = "frame", dt)
         /\ IF r.kind = "frame"
            THEN LET res == cmd_query_data_decode(r.d)
                 IN /\ pm25' = res[1]
                    /\ pm10' = res[2]
                    /\ samples' = append_sample(samples, res)
            ELSE UNCHANGED <<pm25, pm10, samples>>
    /\ wpc' = "samp_sleep"
    /\ UNCHANGED <<ser, tx, closes, cacheVars, start_time, queries, fileVars,
                   lifeVars, hostVars, otherVars>>

\* time.sleep(self.sample_interval)
sampling_sleep ==
    /\ wpc = "samp_sleep"
    /\ Elapse(sample_interval)
    /\ wpc' = "samp_check"
    /\ UNCHANGED <<ser, tx, closes, cacheVars, loopVars, fileVars, lifeVars,
                   hostVars, faults, otherVars>>

\* a variant of select_sample: the first sample is taken, samples[0]
select_sample_first ==
    /\ wpc = "select"
    /\ IF samples # <<>>
       THEN /\ pm25' = samples[1][1]
            /\ pm10' = samples[1][2]
            /\ wpc' = "lock"
       ELSE /\ UNCHANGED <<pm25, pm10>>
            /\ wpc' = "sleep_w"
    /\ UNCHANGED <<now, ser, tx, closes, cacheVars, start_time, samples, queries,
                   fileVars, lifeVars, hostVars, faults, otherVars>>

\* a variant of select_sample: `if samples` is missing, so that samples[-1] of
\* an empty list raises IndexError into the outer except block
select_sample_unguarded ==
    /\ wpc = "select"
    /\ IF samples # <<>>
       THEN /\ pm25' = samples[Len(samples)][1]
            /\ pm10' = samples[Len(samples)][2]
            /\ wpc' = "lock"
       ELSE /\ UNCHANGED <<pm25, pm10>>
            /\ wpc' = "backoff"
    /\ UNCHANGED <<now, ser, tx, closes, cacheVars, start_time, samples, queries,
                   fileVars, lifeVars, hostVars, faults, otherVars>>

\* if samples: pm25, pm10 = samples[-1]
select_sample ==
    /\ wpc = "select"
    /\ IF samples # <<>>
       THEN /\ pm25' = samples[Len(samples)][1]
            /\ pm10' = samples[Len(samples)][2]
            /\ wpc' = "lock"
       ELSE /\ UNCHANGED <<pm25, pm10>>
            /\ wpc' = "sleep_w"
    /\ UNCHANGED <<now, ser, tx, closes, cacheVars, start_time, samples, queries,
                   fileVars, lifeVars, hostVars, faults, otherVars>>

\* a variant of cache_lock: the cache is written without taking self.lock
cache_lock_skipped ==
    /\ wpc = "lock"
    /\ wpc' = "set_pm25"
    /\ UNCHANGED <<now, ser, tx, closes, cacheVars,
                   loopVars, fileVars, lifeVars, hostVars, faults, otherVars>>

\* with self.lock
cache_lock ==
    /\ wpc = "lock"
    /\ lock = "free"
    /\ lock' = "worker"
    /\ wpc' = "set_pm25"
    /\ UNCHANGED <<now, ser, tx, closes, latest_pm25, latest_pm10, last_update, lastpub,
                   loopVars, fileVars, lifeVars, hostVars, faults, otherVars>>

\* self.latest_pm25 = pm25
cache_set_pm25 ==
    /\ wpc = "set_pm25"
    /\ latest_pm25' = pm25
    /\ wpc' = "set_pm10"
    /\ UNCHANGED <<now, ser, tx, closes, lock, latest_pm10, last_update, lastpub,
                   loopVars, fileVars, lifeVars, hostVars, faults, otherVars>>

\* self.latest_pm10 = pm10
cache_set_pm10 ==
    /\ wpc = "set_pm10"
    /\ latest_pm10' = pm10
    /\ wpc' = "set_ts"
    /\ UNCHANGED <<now, ser, tx, closes, lock, latest_pm25, last_update, lastpub,
                   loopVars, fileVars, lifeVars, hostVars, faults, otherVars>>

\* self.last_update = int(time.time()), and the exit of the with block
cache_set_last_update ==
    /\ wpc = "set_ts"
    /\ last_update' = now
    /\ lock' = "free"
    /\ lastpub' = <<pm25, pm10, now>>
    /\ wpc' = "write_json"
    /\ UNCHANGED <<now, ser, tx, closes, latest_pm25, latest_pm10,
                   loopVars, fileVars, lifeVars, hostVars, faults, otherVars>>

----------------------------------------------------------------------------
(* Worker thread: write_json.  A file is [exists, content]; the content of a  *)
(* JSON file is the sequence of the (key, value) pairs json.dump writes, so   *)
(* a proper prefix of it is a truncated file.                                *)

json_dump(ts, p25, p10) == <<<<"dateTime", ts>>, <<"pm2_5", p25>>, <<"pm10_0", p10>>>>

\* self.write_json(self.last_update, pm25, pm10): data = {...}
write_json_call ==
    /\ wpc = "write_json"
    /\ data' = json_dump(last_update, pm25, pm10)
    /\ wpc' = "wj_makedirs"
    /\ UNCHANGED <<now, ser, tx, closes, cacheVars, loopVars, tmpfile, destfile,
                   lifeVars, hostVars, faults, otherVars>>

\* the return of write_json, from the end of the try block or from its except
\* block: its locals are gone, and a temporary file left behind by a failure
\* is a file nothing refers to again
write_json_return ==
    /\ wpc' = "sleep_w"
    /\ data' = <<>>
    /\ tmpfile' = NoFile

\* os.makedirs(dirpath, mode=0o755, exist_ok=True)
write_json_makedirs ==
    /\ wpc = "wj_makedirs"
    /\ \E ok \in BOOLEAN :
         /\ FileCall(ok)
         /\ IF ok THEN wpc' = "wj_tmp" /\ UNCHANGED <<data, tmpfile>>
                  ELSE write_json_return
    /\ UNCHANGED <<now, ser, tx, closes, cacheVars, loopVars, destfile, lifeVars,
                   hostVars, otherVars>>

\* tempfile.NamedTemporaryFile('w', dir=dirpath, delete=False)
write_json_tmpfile ==
    /\ wpc = "wj_tmp"
    /\ \E ok \in BOOLEAN :
         /\ FileCall(ok)
         /\ IF ok THEN /\ tmpfile' = [exists |-> TRUE, content |-> <<>>]
                       /\ wpc' = "wj_dump"
                       /\ data' = data
                  ELSE write_json_return
    /\ UNCHANGED <<now, ser, tx, closes, cacheVars, loopVars, destfile, lifeVars,
                   hostVars, otherVars>>

\* a variant of write_json_dump: the JSON is written to self.json_output itself
write_json_dump_in_place ==
    /\ wpc = "wj_dump"
    /\ \E ok \in BOOLEAN :
         /\ FileCall(ok)
         /\ IF ok
            THEN LET written == Append(tmpfile.content, data[Len(tmpfile.content) + 1])
                 IN /\ tmpfile' = [tmpfile EXCEPT !.content = written]
                    /\ destfile' = [exists |-> TRUE, content |-> written]
                    /\ wpc' = IF written = data THEN "wj_chmod" ELSE "wj_dump"
                    /\ data' = data
            ELSE write_json_return /\ destfile' = destfile
    /\ UNCHANGED <<now, ser, tx, closes, cacheVars, loopVars, lifeVars,
                   hostVars, otherVars>>

\* json.dump(data, tmpfile) and the close of the with block: the pairs are
\* written one after another, and a failure leaves the part already written
write_json_dump ==
    /\ wpc = "wj_dump"
    /\ \E ok \in BOOLEAN :
         /\ FileCall(ok)
         /\ IF ok
            THEN LET written == Append(tmpfile.content, data[Len(tmpfile.content) + 1])
                 IN /\ tmpfile' = [tmpfile EXCEPT !.content = written]
                    /\ wpc' = IF written = data THEN "wj_chmod" ELSE "wj_dump"
                    /\ data' = data
            ELSE write_json_return
    /\ UNCHANGED <<now, ser, tx, closes, cacheVars, loopVars, destfile, lifeVars,
                   hostVars, otherVars>>

\* a variant of write_json_chmod: the except block of write_json is missing, so
\* that the OSError of os.chmod is raised into sensor_loop
write_json_chmod_raises ==
    /\ wpc = "wj_chmod"
    /\ \E ok \in BOOLEAN :
         /\ FileCall(ok)
         /\ IF ok THEN wpc' = "wj_replace" /\ UNCHANGED <<data, tmpfile>>
                  ELSE wpc' = "backoff" /\ data' = <<>> /\ tmpfile' = NoFile
    /\ UNCHANGED <<now, ser, tx, closes, cacheVars, loopVars, destfile, lifeVars,
                   hostVars, otherVars>>

\* os.chmod(tmpname, 0o644)
write_json_chmod ==
    /\ wpc = "wj_chmod"
    /\ \E ok \in BOOLEAN :
         /\ FileCall(ok)
         /\ IF ok THEN wpc' = "wj_replace" /\ UNCHANGED <<data, tmpfile>>
                  ELSE write_json_return
    /\ UNCHANGED <<now, ser, tx, closes, cacheVars, loopVars, destfile, lifeVars,
                   hostVars, otherVars>>

\* os.replace(tmpname, self.json_output): the rename is atomic
write_json_replace ==
    /\ wpc = "wj_replace"
    /\ \E ok \in BOOLEAN :
         /\ FileCall(ok)
         /\ destfile' = IF ok THEN tmpfile ELSE destfile
    /\ write_json_return
    /\ UNCHANGED <<now, ser, tx, closes, cacheVars, loopVars, lifeVars,
                   hostVars, otherVars>>

----------------------------------------------------------------------------
(* Worker thread: the end of the cycle. *)

\* self.cmd_set_sleep(1)
sleep_write ==
    /\ wpc = "sleep_w"
    /\ \E ok \in WriteResults :
         /\ ChannelCall(ok)
         /\ IF ok THEN tx' = cmd_set_sleep_frame(1) /\ wpc' = "sleep_r"
                  ELSE tx' = tx /\ wpc' = "backoff"
    /\ UNCHANGED <<now, ser, closes, cacheVars, loopVars, fileVars, lifeVars,
                   hostVars, otherVars>>

sleep_read ==
    /\ wpc = "sleep_r"
    /\ \E ok \in AckResults, dt \in 0..MaxReadTime :
         /\ ChannelRead(ok, dt)
         /\ wpc' = IF ok THEN "sleep_wait" ELSE "backoff"
    /\ UNCHANGED <<ser, tx, closes, cacheVars, loopVars, fileVars, lifeVars,
                   hostVars, otherVars>>

\* time.sleep(self.sleep_period)
sleep_wait ==
    /\ wpc = "sleep_wait"
    /\ Elapse(sleep_period)
    /\ wpc' = "loop_check"
    /\ UNCHANGED <<ser, tx, closes, cacheVars, loopVars, fileVars, lifeVars,
                   hostVars, faults, otherVars>>

\* a variant of loop_backoff: the error ends sensor_loop
loop_backoff_exits ==
    /\ wpc = "backoff"
    /\ Elapse(LOOP_BACKOFF)
    /\ wpc' = "done"
    /\ UNCHANGED <<ser, tx, closes, cacheVars, loopVars, fileVars, lifeVars,
                   hostVars, faults, otherVars>>

\* except Exception: time.sleep(10)
loop_backoff ==
    /\ wpc = "backoff"
    /\ Elapse(LOOP_BACKOFF)
    /\ wpc' = "loop_check"
    /\ UNCHANGED <<ser, tx, closes, cacheVars, loopVars, fileVars, lifeVars,
                   hostVars, faults, otherVars>>

Worker ==
    \/ sensor_loop_entry
    \/ bg_init_wake_write \/ bg_init_wake_read \/ bg_init_stabilize
    \/ bg_init_flush \/ bg_init_mode_write \/ bg_init_mode_read
    \/ loop_check \/ wake_write \/ wake_read \/ wake_stabilize
    \/ sampling_start \/ sampling_check \/ query_write \/ query_read
    \/ sampling_sleep \/ select_sample
    \/ cache_lock \/ cache_set_pm25 \/ cache_set_pm10 \/ cache_set_last_update
    \/ write_json_call \/ write_json_makedirs \/ write_json_tmpfile
    \/ write_json_dump \/ write_json_chmod \/ write_json_replace
    \/ sleep_write \/ sleep_read \/ sleep_wait \/ loop_backoff

Next == Host \/ Worker

Spec == Init /\ [][Next]_vars

----------------------------------------------------------------------------
(* The start of the service on a channel that may fail StartupFaults times:  *)
(* __init__ with initialize_sensor, and the thread up to its first test of   *)
(* self.running.                                                             *)

InitStartup == ServiceStart(StartupFaults) /\ HarnessOff

NextStartup ==
    \/ init_serial
    \/ init_wake_write \/ init_wake_read \/ init_stabilize
    \/ init_flush \/ init_mode_write \/ init_mode_read \/ init_backoff
    \/ thread_start \/ bind_new_loop_packet
    \/ sensor_loop_entry
    \/ bg_init_wake_write \/ bg_init_wake_read \/ bg_init_stabilize
    \/ bg_init_flush \/ bg_init_mode_write \/ bg_init_mode_read

SpecStartup == InitStartup /\ [][NextStartup]_vars

----------------------------------------------------------------------------
(* The duty cycle alone: the service has been constructed (the port opened,   *)
(* initialize_sensor returned at its first attempt, the thread started and   *)
(* new_loop_packet bound) and the host leaves it running.                    *)

\* the state in which __init__ leaves a service with reading period p
Started(p) ==
    /\ now = INIT_STABILIZE
    /\ hpc = "started"
    /\ wpc = "entry"
    /\ ser = "open"
    /\ running = "True"
    /\ thread = "started"
    /\ bound = TRUE
    /\ attempt = 0
    /\ tx = cmd_set_mode_frame(MODE_QUERY)
    /\ closes = 0
    /\ lock = "free"
    /\ latest_pm25 = None
    /\ latest_pm10 = None
    /\ last_update = None
    /\ start_time = 0
    /\ samples = <<>>
    /\ queries = 0
    /\ pm25 = None
    /\ pm10 = None
    /\ data = <<>>
    /\ tmpfile = NoFile
    /\ destfile = NoFile
    /\ packet = NewPacket
    /\ lastpub = <<None, None, None>>
    /\ faults = 0
    /\ budget = MaxFaults
    /\ read_period = p
    /\ sleep_period = SleepPeriod
    /\ sample_interval = SampleInterval
    /\ HarnessOff

InitCycle == Started(CycleReadPeriod)

NextCycle == Worker

SpecCycle == InitCycle /\ [][NextCycle]_vars

----------------------------------------------------------------------------
(* The duty cycle on a channel that becomes usable: once the environment has *)
(* spent its failures every write returns, every read returns at once, and   *)
(* every reply to a query is a valid frame.  The thread keeps being          *)
(* scheduled.                                                                *)

Usable == faults = budget

InitRecover == Started(ReadPeriod)

NextRecover ==
    /\ Worker
    /\ (Usable /\ wpc = "query_r") => samples' # samples

SpecRecover == InitRecover /\ [][NextRecover]_vars /\ WF_vars(NextRecover)

----------------------------------------------------------------------------
(* construct_command as a function of its arguments: one call, on a command  *)
(* code of the protocol and a list of at most MaxDataLen byte values.        *)

DataBytes == {1, 255}

DataLists == UNION {[1..n -> DataBytes] : n \in 0..MaxDataLen}

InitBuild ==
    /\ ServiceInit
    /\ bcmd \in {CMD_MODE, CMD_QUERY_DATA, CMD_SLEEP}
    /\ barg \in DataLists
    /\ bdata = barg
    /\ bret = <<>>
    /\ bpc = "call"
    /\ qd = <<>>
    /\ qret = <<None, None>>
    /\ qbefore = <<>>
    /\ qsamples = <<>>
    /\ qpc = "off"
    /\ ReadOff
    /\ PairOff

\* construct_command(bcmd, bdata): data += ... extends the caller's list in place
build ==
    /\ bpc = "call"
    /\ LET r == construct_command(bcmd, bdata)
       IN /\ bret' = r.ret
          /\ bdata' = r.data
          /\ bpc' = IF r.raised THEN "raised" ELSE "returned"
    /\ UNCHANGED <<svcVars, bcmd, barg, qd, qret, qbefore, qsamples, qpc, readVars,
                   pairVars>>

NextBuild == build

SpecBuild == InitBuild /\ [][NextBuild]_vars

----------------------------------------------------------------------------
(* cmd_query_data as a function of the bytes read: one call inside the       *)
(* sampling loop, on a 10-byte buffer.                                       *)

TestFrames ==
    {<<h, t, b0, b1, b2, b3, 0, 0, 0, e>> :
        h \in {HEAD, TAIL, 0}, t \in {QUERY_REPLY, 197, HEAD},
        b0 \in {0, 123, 255}, b1 \in {0, 1}, b2 \in {10, 200}, b3 \in {0, 1, 255},
        e \in {TAIL, HEAD, 0}}

InitQuery ==
    /\ ServiceInit
    /\ bcmd = CMD_MODE
    /\ barg = <<>>
    /\ bdata = <<>>
    /\ bret = <<>>
    /\ bpc = "off"
    /\ qd \in TestFrames
    /\ qret = <<None, None>>
    /\ qbefore \in {<<>>, <<<<10, 10>>>>}
    /\ qsamples = qbefore
    /\ qpc = "call"
    /\ ReadOff
    /\ PairOff

\* pm25, pm10 = self.cmd_query_data(), with d the bytes read_response
\* returned, and the append that follows it in sensor_loop
query ==
    /\ qpc = "call"
    /\ qret' = cmd_query_data_decode(qd)
    /\ qsamples' = append_sample(qsamples, cmd_query_data_decode(qd))
    /\ qpc' = "returned"
    /\ UNCHANGED <<svcVars, bcmd, barg, bdata, bret, bpc, qd, qbefore, readVars,
                   pairVars>>

NextQuery == query

SpecQuery == InitQuery /\ [][NextQuery]_vars

----------------------------------------------------------------------------
(* read_response as a function of the bytes the port delivers: one call.     *)
(* Each self.ser.read(size=1) returns b'' after the port's timeout, or the   *)
(* next byte of the stream, which is the header 0xaa or some other byte.     *)
(* The stream may go on for ever; the model follows it for MaxReads reads.   *)

NoiseBytes == {0, TAIL}

\* what self.ser.read(size=1) can return
ByteReads == {<<>>} \cup {<<b>> : b \in NoiseBytes \cup {HEAD}}

\* what self.ser.read(size=9) can return: 9 bytes, or fewer on a timeout
RestReads == {<<QUERY_REPLY, 123, 0, 200, 1, 0, 0, 67, TAIL>>,
              <<QUERY_REPLY, 123, 0, 200>>, <<>>}

InitRead ==
    /\ ServiceInit
    /\ bcmd = CMD_MODE
    /\ barg = <<>>
    /\ bdata = <<>>
    /\ bret = <<>>
    /\ bpc = "off"
    /\ qd = <<>>
    /\ qret = <<None, None>>
    /\ qbefore = <<>>
    /\ qsamples = <<>>
    /\ qpc = "off"
    /\ rpc = "while"
    /\ rbyte = <<>>
    /\ retries = 0
    /\ reads = 0
    /\ rd = <<>>
    /\ PairOff

readOther == <<svcVars, bcmd, barg, bdata, bret, bpc, qd, qret, qbefore, qsamples, qpc,
               pairVars>>

\* while byte != b'\xaa' and retries < max_retries
read_while ==
    /\ rpc = "while"
    /\ rpc' = IF rbyte # <<HEAD>> /\ retries < read_max_retries THEN "read1" ELSE "header"
    /\ UNCHANGED <<rbyte, retries, reads, rd, readOther>>

\* byte = self.ser.read(size=1); if not byte: retries += 1; time.sleep(0.1)
read_byte ==
    /\ rpc = "read1"
    /\ reads < MaxReads
    /\ \E b \in ByteReads :
         /\ rbyte' = b
         /\ retries' = IF b = <<>> THEN retries + 1 ELSE retries
    /\ reads' = reads + 1
    /\ rpc' = "while"
    /\ UNCHANGED <<rd, readOther>>

\* if byte != b'\xaa': raise TimeoutError("No response from sensor")
read_header ==
    /\ rpc = "header"
    /\ rpc' = IF rbyte # <<HEAD>> THEN "NoResponse" ELSE "read9"
    /\ UNCHANGED <<rbyte, retries, reads, rd, readOther>>

\* d = self.ser.read(size=9); if len(d) != 9: raise TimeoutError; return byte + d
read_rest ==
    /\ rpc = "read9"
    /\ \E r \in RestReads :
         IF Len(r) # 9
         THEN rpc' = "IncompleteResponse" /\ rd' = rd
         ELSE rpc' = "returned" /\ rd' = rbyte \o r
    /\ UNCHANGED <<rbyte, retries, reads, readOther>>

NextRead == read_while \/ read_byte \/ read_header \/ read_rest

SpecRead == InitRead /\ [][NextRead]_vars

----------------------------------------------------------------------------
(* A series of cmd_query_data calls on a sensor that answers every query,    *)
(* sooner or later.  The port keeps the replies that have arrived in its     *)
(* input buffer until they are read; nothing in the duty cycle empties the   *)
(* buffer (flushInput is called in the initialisation only).  A reply is     *)
(* identified by the number of the query it answers.                         *)

InitPair ==
    /\ ServiceInit
    /\ bcmd = CMD_MODE
    /\ barg = <<>>
    /\ bdata = <<>>
    /\ bret = <<>>
    /\ bpc = "off"
    /\ qd = <<>>
    /\ qret = <<None, None>>
    /\ qbefore = <<>>
    /\ qsamples = <<>>
    /\ qpc = "off"
    /\ ReadOff
    /\ ppc = "call"
    /\ pseq = 0
    /\ inflight = <<>>
    /\ rxq = <<>>
    /\ pgot = None

pairOther == <<svcVars, bcmd, barg, bdata, bret, bpc, qd, qret, qbefore, qsamples, qpc,
               readVars>>

\* cmd_query_data: self.ser.write(cmd); the sensor will answer
pair_query_write ==
    /\ ppc = "call"
    /\ pseq < MaxQueries
    /\ pseq' = pseq + 1
    /\ inflight' = Append(inflight, [req |-> pseq + 1])
    /\ ppc' = "read"
    /\ UNCHANGED <<rxq, pgot, pairOther>>

\* the sensor's reply to a query, with the reading p it carries, reaches the
\* input buffer of the port
sensor_reply ==
    /\ inflight # <<>>
    /\ \E p \in Payloads :
         rxq' = Append(rxq, [req |-> Head(inflight).req,
                             d |-> Frame(QUERY_REPLY, p, TAIL)])
    /\ inflight' = Tail(inflight)
    /\ UNCHANGED <<ppc, pseq, pgot, pairOther>>

\* cmd_query_data: d = self.read_response() takes the oldest frame of the
\* input buffer, or raises TimeoutError when none arrives in time; the frame
\* is decoded and the reading returned
pair_query_read ==
    /\ ppc = "read"
    /\ IF rxq # <<>>
       THEN /\ qret' = cmd_query_data_decode(Head(rxq).d)
            /\ pgot' = Head(rxq).req
            /\ rxq' = Tail(rxq)
       ELSE /\ qret' = qret
            /\ pgot' = None
            /\ rxq' = rxq
    /\ ppc' = "call"
    /\ UNCHANGED <<pseq, inflight, svcVars, bcmd, barg, bdata, bret, bpc, qd,
                   qbefore, qsamples, qpc, readVars>>

NextPair == pair_query_write \/ sensor_reply \/ pair_query_read

SpecPair == InitPair /\ [][NextPair]_vars

----------------------------------------------------------------------------
(* Properties. *)

Last(s) == s[Len(s)]

CeilDiv(a, b) == (a + b - 1) \div b

\* the worker has left the with block of a publish and not yet returned
\* from write_json
InWriteJson == wpc \in {"wj_makedirs", "wj_tmp", "wj_dump", "wj_chmod", "wj_replace"}

Published == wpc = "write_json" \/ InWriteJson

\* a file holding one whole JSON object {dateTime, pm2_5, pm10_0}
CompleteJson(f) ==
    /\ f.exists
    /\ Len(f.content) = 3
    /\ f.content[1][1] = "dateTime" /\ f.content[1][2] # None
    /\ f.content[2][1] = "pm2_5" /\ f.content[2][2] # None
    /\ f.content[3][1] = "pm10_0" /\ f.content[3][2] # None

\* C1: once a reading period with at least one valid sample has published, the
\* cache holds the last sample of that period's list and the time of the update,
\* and write_json was handed that same sample and that same timestamp.
C1_LastSampleWins ==
    /\ Published =>
         /\ samples # <<>>
         /\ latest_pm25 = Last(samples)[1]
         /\ latest_pm10 = Last(samples)[2]
         /\ last_update # None
         /\ last_update >= start_time + read_period
    /\ InWriteJson =>
         data = <<<<"dateTime", last_update>>, <<"pm2_5", Last(samples)[1]>>,
                  <<"pm10_0", Last(samples)[2]>>>>

\* C1 witness: the samples (1.0, 1.0), (2.0, 2.0), (3.0, 3.0) were collected and
\* (3.0, 3.0) is in the cache and on its way to the file.
C1_Witness ==
    /\ wpc = "wj_replace"
    /\ samples = <<<<10, 10>>, <<20, 20>>, <<30, 30>>>>
    /\ latest_pm25 = 30
    /\ tmpfile.content = data

\* C2: a reading period that ends with no valid sample goes straight to the
\* sleep command, and neither that step nor any step of the sampling loop
\* changes the cached reading, the snapshot file or a temporary file.
C2_NoSamplePhase ==
    [][ /\ (wpc = "select" /\ samples = <<>>) => wpc' = "sleep_w"
        /\ (wpc \in {"samp_start", "samp_check", "query_w", "query_r", "samp_sleep"}
            \/ (wpc = "select" /\ samples = <<>>))
           => UNCHANGED <<latest_pm25, latest_pm10, last_update, destfile, tmpfile>>
      ]_vars

\* C2 witness: a second reading period made queries and collected nothing; the
\* reading and the file of the first period are still there and the worker is
\* about to send the sleep command.
C2_Witness ==
    /\ wpc = "sleep_w"
    /\ samples = <<>>
    /\ queries > 0
    /\ faults > 0
    /\ latest_pm25 # None
    /\ CompleteJson(destfile)
    /\ destfile.content[1][2] = last_update

\* C3: the file at json_output is at every moment absent or one whole JSON
\* object, and it changes only by the rename of a temporary file that holds
\* the whole new object.
C3_AtomicPublish ==
    /\ [](destfile = NoFile \/ CompleteJson(destfile))
    /\ [][destfile' # destfile =>
            /\ wpc = "wj_replace"
            /\ CompleteJson(tmpfile)
            /\ tmpfile.content = data
            /\ destfile' = tmpfile]_vars

\* C3 witness: the new object is half written to the temporary file while the
\* file at json_output still holds the whole object of the publish before.
C3_Witness ==
    /\ wpc = "wj_dump"
    /\ Len(tmpfile.content) = 2
    /\ CompleteJson(destfile)
    /\ destfile.content # data

\* the phase of the duty cycle a position of sensor_loop belongs to
Phase(pc) ==
    IF pc \in {"wake_w", "wake_r", "wake_stab"} THEN "Waking"
    ELSE IF pc \in {"samp_start", "samp_check", "query_w", "query_r", "samp_sleep",
                    "select", "lock", "set_pm25", "set_pm10", "set_ts", "write_json",
                    "wj_makedirs", "wj_tmp", "wj_dump", "wj_chmod", "wj_replace"}
         THEN "Sampling"
    ELSE IF pc \in {"sleep_w", "sleep_r", "sleep_wait"} THEN "Sleeping"
    ELSE "none"

\* C4: once shutDown has set running to False the worker begins no other phase:
\* it stays in the phase it is in until it leaves the cycle.
C4_StopAtPhaseBoundary ==
    [][running = "False" => (Phase(wpc') = Phase(wpc) \/ Phase(wpc') = "none")]_vars

\* C5: every shutDown comes to its end, and has then closed the port exactly once.
C5_StopClosesOnce ==
    /\ hpc # "sd_raised"
    /\ hpc = "sd_done" => closes = 1

\* what remains of C5 when the port was opened: shutDown never closes it twice,
\* and has closed it once when it ends
StopClosesOpenedPortOnce ==
    /\ closes <= 1
    /\ (hpc = "sd_done" /\ ser # "None") => (closes = 1 /\ ser = "closed")

\* C6: when the port could not be opened no thread is started, nothing is bound
\* and no later call into the service raises.
C6_OpenFailureContained ==
    ser = "None" => (wpc = "idle" /\ ~bound /\ hpc # "sd_raised")

\* the (pm25, pm10) pairs the sensor can report
Readings == {cmd_query_data_decode(f) : f \in CandidateFrames} \ {<<None, None>>}

\* C7: whenever the worker is not inside its with block the three cache fields
\* are those of one cache update (or all None), and the pm2_5, pm10_0 a reader
\* put into a packet are the pair of one sample.
C7_CacheAtomic ==
    /\ lock # "worker" => <<latest_pm25, latest_pm10, last_update>> = lastpub
    /\ <<packet.pm2_5, packet.pm10_0>> \in Readings \cup {<<None, None>>}
    /\ packet.pm2_5 # None => <<packet.pm2_5, packet.pm10_0>> \in Readings

\* C7 witness: a reader is inside new_loop_packet with a reading cached while
\* the worker waits for the lock to replace it by a different one.
C7_Witness ==
    /\ hpc = "nlp_body"
    /\ wpc = "lock"
    /\ latest_pm25 # None
    /\ pm25 # latest_pm25

Malformed(d) == d[1] # HEAD \/ d[2] # QUERY_REPLY \/ d[10] # TAIL

\* C9: on a malformed 10-byte frame cmd_query_data returns (None, None) and
\* the sampling loop appends nothing.
C9_MalformedFrame ==
    (qpc = "returned" /\ Malformed(qd)) =>
        (qret = <<None, None>> /\ qsamples = qbefore)

\* C9 witness: a frame with the right header and type byte and a wrong
\* terminator was handed to a loop that already had a sample.
C9_Witness ==
    /\ qpc = "returned"
    /\ qd[1] = HEAD /\ qd[2] = QUERY_REPLY /\ qd[10] # TAIL
    /\ qbefore # <<>>

\* C10: for a data list of at most 12 bytes construct_command returns 19 bytes:
\* 0xaa 0xb4, the command code, the data followed by zeros up to 12 bytes,
\* 0xff 0xff, (sum of those 12 bytes + code - 2) mod 256, 0xab.
C10_FrameLayout ==
    /\ (bpc \in {"returned", "raised"} /\ Len(barg) <= 12) => bpc = "returned"
    /\ bpc = "returned" =>
         /\ Len(bret) = 19
         /\ bret[1] = 170 /\ bret[2] = 180 /\ bret[3] = bcmd
         /\ \A i \in 1..12 : bret[3 + i] = IF i <= Len(barg) THEN barg[i] ELSE 0
         /\ bret[16] = 255 /\ bret[17] = 255
         /\ bret[18] = (SumSeq(barg) + bcmd - 2) % 256
         /\ bret[19] = 171

\* C10 witness: a frame was built from fewer than 12 bytes whose sum is
\* beyond one byte.
C10_Witness ==
    /\ bpc = "returned"
    /\ Len(barg) \in 2..11
    /\ SumSeq(barg) + bcmd - 2 >= 256

\* C11: on a 10-byte frame with header 0xaa, type 0xc0 and terminator 0xab
\* cmd_query_data returns, in tenths, d[2] + 256 * d[3] and d[4] + 256 * d[5],
\* neither negative.
C11_FrameDecode ==
    (qpc = "returned" /\ ~Malformed(qd)) =>
        /\ qret = <<qd[3] + 256 * qd[4], qd[5] + 256 * qd[6]>>
        /\ qret[1] >= 0 /\ qret[2] >= 0
        /\ qsamples = Append(qbefore, qret)

\* C11 witness: the payload 123, 0, 200, 1 was decoded to 12.3 and 45.6.
C11_Witness ==
    /\ qpc = "returned"
    /\ qd = <<170, 192, 123, 0, 200, 1, 0, 0, 0, 171>>
    /\ qret = <<123, 456>>

\* C12: the worker holds the cache lock only across its three assignments, so
\* new_loop_packet waits for nothing else; a call leaves the packet as it was
\* when nothing has been cached, and otherwise sets pm2_5 and pm10_0 to those of
\* the latest cache update; it changes no other field and not the cache.
C12_Enrichment ==
    /\ [](lock = "worker" <=> wpc \in {"set_pm25", "set_pm10", "set_ts"})
    /\ [][hpc = "nlp_body" =>
            /\ hpc' = "started"
            /\ packet'.outTemp = packet.outTemp
            /\ IF lastpub = <<None, None, None>>
               THEN packet' = packet
               ELSE packet'.pm2_5 = lastpub[1] /\ packet'.pm10_0 = lastpub[2]]_hostVars
    /\ [][(hpc \in {"started", "nlp_body"} /\ hpc' \in {"started", "nlp_body"})
            => UNCHANGED <<latest_pm25, latest_pm10, last_update>>
        ]_hostVars

\* C12 witness: a packet carries the reading of the first period while the
\* second period has already collected a different sample.
C12_Witness ==
    /\ hpc = "started"
    /\ packet.outTemp = 215
    /\ packet.pm2_5 # None
    /\ <<packet.pm2_5, packet.pm10_0>> = <<lastpub[1], lastpub[2]>>
    /\ wpc = "samp_sleep"
    /\ samples # <<>>
    /\ Last(samples)[1] # packet.pm2_5

\* the host thread is at a call on the serial port
HostOnChannel ==
    hpc \in {"init_wake_w", "init_wake_r", "init_flush", "init_mode_w", "init_mode_r",
             "sd_sleep_w", "sd_sleep_r", "sd_close"}

\* the worker has written a command and is reading its response
WorkerInExchange == wpc \in {"bg_wake_r", "bg_mode_r", "wake_r", "query_r", "sleep_r"}

\* the worker is alive at a position from which it still reaches a call on the
\* port before it tests self.running again
WorkerMayUseChannel ==
    wpc \notin {"idle", "done", "loop_check", "sleep_wait", "backoff"}

\* C13: while the host thread is at a call on the serial port the worker is
\* neither in a command/response exchange nor able to start one.
C13_ExclusiveChannel ==
    HostOnChannel => (~WorkerInExchange /\ ~WorkerMayUseChannel)

\* the part of C13 that is about start-up: initialize_sensor has the port to itself
InitOwnsChannel ==
    hpc \in {"init_wake_w", "init_wake_r", "init_stab", "init_flush", "init_mode_w",
             "init_mode_r", "init_backoff"} => wpc = "idle"

\* the state C13 excludes: shutDown reads the response to its sleep command
\* while the worker reads the response to a query
ConcurrentExchange == hpc = "sd_sleep_r" /\ wpc = "query_r" /\ ser = "open"

\* the seconds a cycle without failures needs from the back-off to its cache
\* update: the back-off, the wake delay and the reading period
RecoveryTime ==
    LOOP_BACKOFF + WAKE_STABILIZE + CeilDiv(read_period, sample_interval) * sample_interval

\* C14: with no stop issued the worker never ends; a failed wake or sleep
\* command takes it to the except block, which sleeps 10 s and goes back to the
\* loop test and from there to the wake command; and when the channel is usable
\* from the back-off on, the cycle that follows updates the cache.
C14_FaultContainment ==
    /\ [](wpc # "done")
    /\ [][(wpc \in {"wake_w", "sleep_w"} /\ faults' # faults) => wpc' = "backoff"]_vars
    /\ [][wpc = "backoff" => (wpc' = "loop_check" /\ now' = now + LOOP_BACKOFF)]_vars
    /\ [][wpc = "loop_check" => wpc' = "wake_w"]_vars
    /\ (wpc = "backoff" /\ Usable /\ now + RecoveryTime <= MaxNow)
         ~> (wpc = "write_json" /\ last_update = now)

\* C14 witness: the first reading is being published after a cycle was given
\* up and the back-off slept.
C14_Witness ==
    /\ wpc = "write_json"
    /\ Usable
    /\ destfile = NoFile
    /\ last_update = now
    /\ now >= INIT_STABILIZE + INIT_STABILIZE + RecoveryTime

\* under the whole service: the worker ends only after shutDown set running
WorkerEndsOnlyOnStop == wpc = "done" => running = "False"

\* the case of C14 before recovery: a cycle was given up on a channel that is
\* usable from now on, with time left for one more cycle
C14_Abandoned == wpc = "backoff" /\ Usable /\ now + RecoveryTime <= MaxNow

\* C15: one call of read_response makes at most 10 single-byte reads while it
\* looks for the header, whatever the port delivers, and what it returns is
\* 10 bytes beginning with 0xaa.
C15_BoundedResync ==
    /\ reads <= read_max_retries
    /\ rpc = "returned" => (Len(rd) = 10 /\ rd[1] = HEAD)

\* what read_response does bound: the reads that time out, not the reads
ReadTimeoutsBounded ==
    /\ retries <= read_max_retries
    /\ rpc = "returned" => (Len(rd) = 10 /\ rd[1] = HEAD)
    /\ rpc = "NoResponse" => (retries = read_max_retries /\ rbyte # <<HEAD>>)

\* the state C15 excludes: after more than 10 reads, none of them the header,
\* read_response is about to read once more
ReadsOnNoise == rpc = "read1" /\ reads > read_max_retries /\ retries < read_max_retries

\* the positions of the worker from the choice of the sample to the return
\* of write_json
Publishing ==
    {"lock", "set_pm25", "set_pm10", "set_ts", "write_json",
     "wj_makedirs", "wj_tmp", "wj_dump", "wj_chmod", "wj_replace"}

\* C16: a query, failed or not, stays in the reading period and keeps the
\* samples collected so far; the sample interval is then slept and the loop test
\* made again; the period ends only when read_period has elapsed; a period
\* with samples goes from the choice of the sample through the publish to the
\* sleep command, where the cache holds its last sample.
C16_QueryFailureContained ==
    /\ [][(wpc \in {"query_w", "query_r"}) =>
            /\ wpc' \in {"query_r", "samp_sleep"}
            /\ Len(samples') >= Len(samples)
            /\ SubSeq(samples', 1, Len(samples)) = samples
            /\ start_time' = start_time]_vars
    /\ [][wpc = "samp_sleep" =>
            (wpc' = "samp_check" /\ now' = now + sample_interval)]_vars
    /\ [](wpc = "select" => now - start_time >= read_period)
    /\ [][(wpc = "select" /\ samples # <<>>) => wpc' = "lock"]_vars
    /\ [][(wpc \in Publishing) => (wpc' \in Publishing \cup {"sleep_w"})]_vars
    /\ []((wpc = "sleep_w" /\ samples # <<>>) =>
            <<latest_pm25, latest_pm10>> = Last(samples))

\* C16 witness: the second query of a reading period has just failed; the
\* sample of the first is kept and the worker sleeps the interval.
C16_Witness ==
    /\ wpc = "samp_sleep"
    /\ faults = 1
    /\ queries = 2
    /\ Len(samples) = 1
    /\ pm25 = samples[1][1]
    /\ now = start_time + sample_interval

\* a reading period in which a query failed has published the sample it kept
C16_PublishedAfterFailure ==
    /\ wpc = "sleep_w"
    /\ faults = 1
    /\ queries = CeilDiv(read_period, sample_interval)
    /\ Len(samples) = queries - 1
    /\ now = start_time + queries * sample_interval
    /\ <<latest_pm25, latest_pm10>> = Last(samples)
    /\ CompleteJson(destfile)

\* C17: a step of write_json that fails goes to the sleep command with the
\* cache and the file at json_output as they were; no step of write_json
\* changes the cache or leaves for the except block of sensor_loop; and a
\* rename that does not fail, after a failed publish as after any other, puts
\* the whole object of the latest cache update at json_output.
C17_PublishFailureContained ==
    /\ [][(InWriteJson /\ faults' # faults) =>
            /\ wpc' = "sleep_w"
            /\ destfile' = destfile
            /\ UNCHANGED <<latest_pm25, latest_pm10, last_update>>]_vars
    /\ [][InWriteJson =>
            /\ wpc' \in Publishing \cup {"sleep_w"}
            /\ UNCHANGED <<latest_pm25, latest_pm10, last_update>>]_vars
    /\ [][(wpc = "wj_replace" /\ faults' = faults) =>
            /\ wpc' = "sleep_w"
            /\ destfile' = [exists |-> TRUE,
                            content |-> json_dump(lastpub[3], lastpub[1], lastpub[2])]
          ]_vars

\* C17 witness: the publish of a second reading failed; the worker is at the
\* sleep command, the cache holds the second reading and the file the first.
C17_Witness ==
    /\ wpc = "sleep_w"
    /\ faults = 1
    /\ samples # <<>>
    /\ <<latest_pm25, latest_pm10>> = Last(samples)
    /\ CompleteJson(destfile)
    /\ destfile.content[1][2] < last_update
    /\ last_update >= start_time + read_period

\* the positions of initialize_sensor inside one attempt, in the order of the code
InitOrder ==
    <<"init_wake_w", "init_wake_r", "init_stab", "init_flush", "init_mode_w",
      "init_mode_r", "thread_start">>

InitIndex(pc) == CHOOSE i \in 1..Len(InitOrder) : InitOrder[i] = pc

\* C18: initialize_sensor makes attempts 0, 1 and 2 at most; an attempt goes
\* through wake command, 2 s delay, flush and mode command in that order; a
\* step that succeeds in the mode command ends initialize_sensor; a step that
\* fails goes to the 3 s back-off and the next attempt if it was attempt 0 or 1
\* and straight to the start of the thread if it was attempt 2; the thread is
\* started in every case, and its first steps are the same four.
C18_StartupRetries ==
    /\ [](attempt \in 0..2)
    /\ [][(hpc \in {"init_wake_w", "init_wake_r", "init_stab", "init_flush",
                    "init_mode_w", "init_mode_r"}) =>
            \/ /\ hpc' = InitOrder[InitIndex(hpc) + 1]
               /\ attempt' = attempt
               /\ hpc = "init_stab" => now' = now + 2
            \/ /\ hpc # "init_stab"
               /\ hpc' = IF attempt < 2 THEN "init_backoff" ELSE "thread_start"
               /\ attempt' = attempt]_hostVars
    /\ [][hpc = "init_backoff" =>
            (hpc' = "init_wake_w" /\ attempt' = attempt + 1 /\ now' = now + 3)]_hostVars
    /\ [][hpc = "thread_start" =>
            (hpc' = "bind" /\ wpc' = "entry" /\ running' = "True" /\ now' = now)]_hostVars
    /\ [][wpc = "entry" => wpc' = "bg_wake_w"]_wpc
    /\ [][wpc' = "loop_check" =>
            wpc \in {"bg_wake_w", "bg_wake_r", "bg_flush", "bg_mode_w", "bg_mode_r"}]_wpc

\* C18 witness: three attempts failed at the wake command, 6 s of back-off were
\* slept, the thread was started and has initialised the sensor itself.
C18_Witness ==
    /\ hpc = "started"
    /\ attempt = 2
    /\ faults = 3
    /\ wpc = "loop_check"
    /\ tx = cmd_set_mode_frame(MODE_QUERY)
    /\ now = 2 * INIT_BACKOFF + INIT_STABILIZE

\* C19: a reading cmd_query_data returns was decoded from the reply to the
\* query that call wrote.
C19_ReplyPaired ==
    (ppc = "call" /\ pgot # None) => pgot = pseq

\* the state C19 excludes: the reply to the first query arrived after its
\* read had timed out, and the second call has returned the reading it carries
StaleReading ==
    /\ ppc = "call"
    /\ pseq = 2
    /\ pgot = 1
    /\ qret # <<None, None>>

\* C20: construct_command leaves the list passed as data as it was.
C20_BuildPure ==
    bpc \in {"returned", "raised"} => bdata = barg

\* what does hold of the list: it keeps its elements and is zero-filled to 12,
\* and a second call on it returns the same frame
BuildPadsInPlace ==
    bpc = "returned" =>
        /\ bdata = PadData(barg)
        /\ SubSeq(bdata, 1, Len(barg)) = barg
        /\ construct_command(bcmd, bdata).ret = bret
        /\ construct_command(bcmd, bdata).data = bdata

\* the state C20 excludes: a list of two bytes was passed and has 12 elements
\* after the call
CallerListExtended ==
    /\ bpc = "returned"
    /\ Len(barg) = 2
    /\ Len(bdata) = 12

====
